---- MODULE Spec2Model ----
(***************************************************************************)
(* A model of the Idaho legislation scraper: the DATARUN resolver of       *)
(* config.py and, of scrape.py, the rate-limited, retried fetch            *)
(* operations, the index parser, the detail parser, the body of            *)
(* download_pdf and the pipeline of main.                                  *)
(*                                                                         *)
(* Strings whose characters matter (DATARUN values, file contents, file    *)
(* names) are sequences of one-character strings, so that str.strip(),     *)
(* str.split("_") and int() are computed and not assumed.                  *)
(***************************************************************************)
EXTENDS Integers, Sequences, FiniteSets, TLC

VARIABLES
    env,          \* os.environ["DATARUN"]: [set |-> BOOLEAN, val |-> string]
    datarunFile,  \* Data/.datarun: [exists |-> BOOLEAN, content |-> string]
    dataDir,      \* stems <s> of the files Data/idaho_bills_enriched_<s>.jsonl
    lastSave,     \* argument of the latest save_datarun call, and whether it
                  \* replaced earlier content
    cpc,          \* position of the process that calls config.py
    cres,         \* outcome of the latest config.py call
    fop,          \* the fetch operation in progress, or "none"
    fpc,          \* position inside the decorated fetch operation
    attempt,      \* tenacity's attempt_number of the call in progress
    attempts,     \* outcome of every session.get of the call in progress
    admits,       \* calls the rate limiter let through, for the call in progress
    sleeps,       \* sleeps of sleep_and_retry, for the call in progress
    waits,        \* seconds tenacity slept after each failed attempt
    ferr,         \* the exception the call in progress ended with, or "none"
    limiter,      \* per decorated function: RateLimitDecorator.num_calls and
                  \* the seconds since last_reset (capped at the period)
    recentGets,   \* GET requests issued within the current second
    calls,        \* fetch operations called so far
    page,         \* the listing page: its mini-data-table blocks in document order
    miniTables,   \* mini_tables of scrape_idaho_legislation
    ipos,         \* the block the loop of scrape_idaho_legislation is at
    results,      \* results of scrape_idaho_legislation
    ipc,          \* position inside the body of scrape_idaho_legislation
    ierr,         \* the exception the body ended with, or "none"
    dpage,        \* the detail page: its bill-table, first row and cell texts
    dpc,          \* position inside the body of parse_detail_page
    sponsorText,  \* sponsor_text of parse_detail_page
    sponsor,      \* what parse_detail_page returns
    derr,         \* the exception the body ended with, or "none"
    mpc,          \* position inside main
    today,        \* datetime.now().strftime("%m_%d_%Y")
    datarun,      \* datarun of main
    sidecarBefore,\* Data/.datarun as it was when main started
    session,      \* the requests.Session of main: its state and its close calls
    billData,     \* bill_data, the rows of bill_df
    sponsors,     \* sponsors of main
    localPdfPaths,\* local_pdf_paths of main
    pdfFiles,     \* the PDF files on disk: path and body
    csvFile,      \* the dataset CSV of the run
    mlog,         \* what main has done so far, in order
    merr,         \* the exception that leaves main, or "none"
    wpc,          \* position inside the retried body of download_pdf
    wurl,         \* url of download_pdf
    wdir,         \* dir_path of download_pdf
    wattempt,     \* tenacity's attempt_number of the download in progress
    wbody,        \* the chunks iter_content yields in this attempt
    wpos,         \* chunks written in this attempt
    wfile,        \* the file at pdf_local_path: [exists, content]
    wres,         \* what download_pdf returns
    werr,         \* the exception download_pdf ended with, or "none"
    wlog          \* per failed attempt: where it failed and what it had written

configVars == <<env, datarunFile, dataDir, lastSave, cpc, cres>>

fetchVars ==
    <<fop, fpc, attempt, attempts, admits, sleeps, waits, ferr, limiter,
      recentGets, calls>>

indexVars == <<page, miniTables, ipos, results, ipc, ierr>>

detailVars == <<dpage, dpc, sponsorText, sponsor, derr>>

mainVars ==
    <<mpc, today, datarun, sidecarBefore, session, billData, sponsors,
      localPdfPaths, pdfFiles, csvFile, mlog, merr>>

downloadVars ==
    <<wpc, wurl, wdir, wattempt, wbody, wpos, wfile, wres, werr, wlog>>

vars ==
    <<configVars, fetchVars, indexVars, detailVars, mainVars, downloadVars>>

nonConfigVars == <<fetchVars, indexVars, detailVars, mainVars, downloadVars>>

nonFetchVars == <<configVars, indexVars, detailVars, mainVars, downloadVars>>

nonIndexVars == <<configVars, fetchVars, detailVars, mainVars, downloadVars>>

nonDetailVars == <<configVars, fetchVars, indexVars, mainVars, downloadVars>>

\* main reads DATARUN and writes Data/.datarun.
nonMainVars ==
    <<dataDir, lastSave, cpc, cres, fetchVars, indexVars, detailVars,
      downloadVars>>

nonDownloadVars == <<configVars, fetchVars, indexVars, detailVars, mainVars>>

-----------------------------------------------------------------------------
(* Strings *)

\* The characters str.strip() removes (the ones the model uses).
Whitespace == {" ", "\n", "\t"}

RECURSIVE LStrip(_)
LStrip(s) ==
    IF s # <<>> /\ Head(s) \in Whitespace THEN LStrip(Tail(s)) ELSE s

RECURSIVE RStrip(_)
RStrip(s) ==
    IF s # <<>> /\ s[Len(s)] \in Whitespace
    THEN RStrip(SubSeq(s, 1, Len(s) - 1))
    ELSE s

\* str.strip()
Strip(s) == RStrip(LStrip(s))

\* str.split(sep) for a one-character separator
RECURSIVE SplitAt(_, _, _)
SplitAt(s, sep, cur) ==
    IF s = <<>> THEN <<cur>>
    ELSE IF Head(s) = sep THEN <<cur>> \o SplitAt(Tail(s), sep, <<>>)
    ELSE SplitAt(Tail(s), sep, Append(cur, Head(s)))

Split(s, sep) == SplitAt(s, sep, <<>>)

Digits == {"0", "1", "2", "3", "4", "5", "6", "7", "8", "9"}

DigitVal(c) ==
    CASE c = "0" -> 0 [] c = "1" -> 1 [] c = "2" -> 2 [] c = "3" -> 3
      [] c = "4" -> 4 [] c = "5" -> 5 [] c = "6" -> 6 [] c = "7" -> 7
      [] c = "8" -> 8 [] c = "9" -> 9

\* int() of a string of decimal digits
RECURSIVE ToInt(_)
ToInt(s) ==
    IF s = <<>> THEN 0
    ELSE 10 * ToInt(SubSeq(s, 1, Len(s) - 1)) + DigitVal(s[Len(s)])

-----------------------------------------------------------------------------
(* The values the model draws DATARUN strings and file names from *)

R_01_15_2026 == <<"0", "1", "_", "1", "5", "_", "2", "0", "2", "6">>
R_04_30_2025 == <<"0", "4", "_", "3", "0", "_", "2", "0", "2", "5">>
R_12_01_2025 == <<"1", "2", "_", "0", "1", "_", "2", "0", "2", "5">>
R_04_09_2025 == <<"0", "4", "_", "0", "9", "_", "2", "0", "2", "5">>
R_12_25_2025 == <<"1", "2", "_", "2", "5", "_", "2", "0", "2", "5">>
R_02_08_2026 == <<"0", "2", "_", "0", "8", "_", "2", "0", "2", "6">>
R_03_15_2026 == <<"0", "3", "_", "1", "5", "_", "2", "0", "2", "6">>

\* Stems that the glob idaho_bills_enriched_*.jsonl matches and the regular
\* expression does not.
S_latest == <<"t", "m", "p">>
S_short  == <<"1", "_", "5", "_", "2", "0", "2", "6">>

Stems ==
    {R_01_15_2026, R_04_30_2025, R_12_01_2025, R_04_09_2025, S_latest, S_short}

\* Values of the DATARUN environment variable: empty, blank, plain, padded.
EnvValues ==
    {<<>>, <<" ">>, <<" ", "\t">>, R_12_25_2025, <<" ">> \o R_12_25_2025 \o <<" ">>}

\* Arguments of save_datarun: plain, padded, blank, empty.
SaveValues ==
    {R_02_08_2026, <<" ">> \o R_03_15_2026 \o <<"\t">>, <<" ">>, <<>>}

\* Contents of a Data/.datarun file left behind by an earlier process.
OldContents == {R_03_15_2026 \o <<"\n">>, <<"\n">>, <<>>}

\* The number of files in Data/ that the glob matches.
MaxFiles == 3

Unset == [set |-> FALSE, val |-> <<>>]
NoFile == [exists |-> FALSE, content |-> <<>>]
NoSave == [some |-> FALSE, val |-> <<>>, over |-> FALSE]
None == [some |-> FALSE, val |-> <<>>]
NoResult == [kind |-> "none", val |-> <<>>, order |-> <<>>]

-----------------------------------------------------------------------------
(* config.py *)

\* _ENRICHED_RE on the base name idaho_bills_enriched_<stem>.jsonl: the stem
\* is \d{2}_\d{2}_\d{4}.
EnrichedRe(stem) ==
    /\ Len(stem) = 10
    /\ \A i \in {1, 2, 4, 5, 7, 8, 9, 10} : stem[i] \in Digits
    /\ stem[3] = "_"
    /\ stem[6] = "_"

\* A faulty variant of SortKey: the fields in the order they are written (month, day,
\* year).
SortKeyWritten(d) ==
    <<ToInt(Split(d, "_")[1]), ToInt(Split(d, "_")[2]), ToInt(Split(d, "_")[3])>>

\* key=lambda d: (int(d.split("_")[2]), int(d.split("_")[0]), int(d.split("_")[1]))
SortKey(d) ==
    <<ToInt(Split(d, "_")[3]), ToInt(Split(d, "_")[1]), ToInt(Split(d, "_")[2])>>

\* Python's order on tuples of three integers: a < b
TupleLess(a, b) ==
    \/ a[1] < b[1]
    \/ a[1] = b[1] /\ a[2] < b[2]
    \/ a[1] = b[1] /\ a[2] = b[2] /\ a[3] < b[3]

\* Inserts d into a list sorted in descending key order, behind the elements
\* whose key is not smaller (list.sort is stable, also with reverse=True).
RECURSIVE InsertDesc(_, _)
InsertDesc(sorted, d) ==
    IF sorted = <<>> THEN <<d>>
    ELSE IF TupleLess(SortKey(Head(sorted)), SortKey(d))
         THEN <<d>> \o sorted
         ELSE <<Head(sorted)>> \o InsertDesc(Tail(sorted), d)

\* matches.sort(key=..., reverse=True)
RECURSIVE SortDesc(_)
SortDesc(s) ==
    IF s = <<>> THEN <<>>
    ELSE InsertDesc(SortDesc(SubSeq(s, 1, Len(s) - 1)), s[Len(s)])

\* _detect_datarun_from_files, for the files in the order glob.glob lists them
DetectDatarunFromFiles(order) ==
    LET matches == SelectSeq(order, EnrichedRe)
    IN  IF matches # <<>>
        THEN [some |-> TRUE, val |-> SortDesc(matches)[1]]
        ELSE None

\* A faulty variant of GetDatarun: the sidecar file is consulted before the override.
GetDatarunFileFirst(e, f, order) ==
    IF f.exists /\ Strip(f.content) # <<>>
    THEN [kind |-> "return", val |-> Strip(f.content), order |-> order]
    ELSE IF e.set /\ e.val # <<>>
    THEN [kind |-> "return", val |-> Strip(e.val), order |-> order]
    ELSE LET d == DetectDatarunFromFiles(order)
         IN  IF d.some /\ d.val # <<>>
             THEN [kind |-> "return", val |-> d.val, order |-> order]
             ELSE [kind |-> "exit", val |-> <<>>, order |-> order]

\* get_datarun: the value returned, or the exit with status 1
GetDatarun(e, f, order) ==
    IF e.set /\ e.val # <<>>
    THEN [kind |-> "return", val |-> Strip(e.val), order |-> order]
    ELSE IF f.exists /\ Strip(f.content) # <<>>
    THEN [kind |-> "return", val |-> Strip(f.content), order |-> order]
    ELSE LET d == DetectDatarunFromFiles(order)
         IN  IF d.some /\ d.val # <<>>
             THEN [kind |-> "return", val |-> d.val, order |-> order]
             ELSE [kind |-> "exit", val |-> <<>>, order |-> order]

\* A faulty variant of SaveDatarunFile: an existing file is kept (open mode "x").
SaveDatarunKeep(f, value) ==
    IF f.exists THEN f ELSE [exists |-> TRUE, content |-> value \o <<"\n">>]

\* save_datarun: the file after open(DATARUN_FILE, "w") and f.write(value + "\n")
SaveDatarunFile(f, value) ==
    [exists |-> TRUE, content |-> value \o <<"\n">>]

\* The orders in which glob.glob can list the files of a directory.
Orderings(S) ==
    {o \in [1..Cardinality(S) -> S] : \A i, j \in DOMAIN o : i # j => o[i] # o[j]}

-----------------------------------------------------------------------------
(* The processes that use config.py *)

ConfigIdle ==
    /\ env = Unset
    /\ datarunFile = NoFile
    /\ dataDir = {}
    /\ lastSave = NoSave
    /\ cpc = "ready"
    /\ cres = NoResult

ConfigInit ==
    /\ env \in {Unset} \cup {[set |-> TRUE, val |-> v] : v \in EnvValues}
    /\ datarunFile \in {NoFile} \cup {[exists |-> TRUE, content |-> c] : c \in OldContents}
    /\ dataDir \in {D \in SUBSET Stems : Cardinality(D) <= MaxFiles}
    /\ lastSave = NoSave
    /\ cpc = "ready"
    /\ cres = NoResult

\* os.environ["DATARUN"] = v
SetEnv(v) ==
    /\ cpc = "ready"
    /\ env' = [set |-> TRUE, val |-> v]
    /\ UNCHANGED <<datarunFile, dataDir, lastSave, cpc, cres>>
    /\ UNCHANGED nonConfigVars

\* os.environ.pop("DATARUN", None)
UnsetEnv ==
    /\ cpc = "ready"
    /\ env.set
    /\ env' = Unset
    /\ UNCHANGED <<datarunFile, dataDir, lastSave, cpc, cres>>
    /\ UNCHANGED nonConfigVars

\* A later pipeline stage writes Data/idaho_bills_enriched_<stem>.jsonl.
WriteEnriched(stem) ==
    /\ cpc = "ready"
    /\ stem \notin dataDir
    /\ Cardinality(dataDir) < MaxFiles
    /\ dataDir' = dataDir \cup {stem}
    /\ UNCHANGED <<env, datarunFile, lastSave, cpc, cres>>
    /\ UNCHANGED nonConfigVars

\* save_datarun(value)
SaveDatarun(value) ==
    /\ cpc = "ready"
    /\ datarunFile' = SaveDatarunFile(datarunFile, value)
    /\ lastSave' = [some |-> TRUE, val |-> value,
                    over |-> datarunFile.exists /\ datarunFile.content # <<>>]
    /\ UNCHANGED <<env, dataDir, cpc, cres>>
    /\ UNCHANGED nonConfigVars

\* A call of get_datarun(); glob.glob lists the directory in some order.
CallGetDatarun ==
    /\ cpc = "ready"
    /\ \E order \in Orderings(dataDir) :
         /\ cres' = GetDatarun(env, datarunFile, order)
         /\ cpc' = IF cres'.kind = "exit" THEN "exited" ELSE "returned"
    /\ UNCHANGED <<env, datarunFile, dataDir, lastSave>>
    /\ UNCHANGED nonConfigVars

\* A call of _detect_datarun_from_files()
CallDetect ==
    /\ cpc = "ready"
    /\ \E order \in Orderings(dataDir) :
         LET d == DetectDatarunFromFiles(order)
         IN  cres' = [kind |-> IF d.some THEN "detected" ELSE "detected_none",
                      val |-> d.val, order |-> order]
    /\ cpc' = "detected"
    /\ UNCHANGED <<env, datarunFile, dataDir, lastSave>>
    /\ UNCHANGED nonConfigVars

\* The caller goes on with the value it got.
ConfigContinue ==
    /\ cpc \in {"returned", "detected"}
    /\ cpc' = "ready"
    /\ cres' = NoResult
    /\ UNCHANGED <<env, datarunFile, dataDir, lastSave>>
    /\ UNCHANGED nonConfigVars

ConfigNext ==
    \/ \E v \in EnvValues : SetEnv(v)
    \/ UnsetEnv
    \/ \E stem \in Stems : WriteEnriched(stem)
    \/ \E value \in SaveValues : SaveDatarun(value)
    \/ CallGetDatarun
    \/ CallDetect
    \/ ConfigContinue

-----------------------------------------------------------------------------
(* scrape.py: the decorated fetch operations *)

Ops == {"scrape_idaho_legislation", "parse_detail_page", "download_pdf"}

\* @limits(calls=10, period=1); the unit of time is the second
Calls == 10
Period == 1

\* stop=stop_after_attempt(5)
StopAfterAttempt == 5

\* wait=wait_exponential(multiplier=1, min=4, max=30)
WaitMultiplier == 1
WaitMin == 4
WaitMax == 30

\* The number of fetch operations a behaviour calls.
MaxCalls == 15

Min(a, b) == IF a < b THEN a ELSE b
Max(a, b) == IF a > b THEN a ELSE b

\* wait_exponential.__call__ for the attempt that just failed:
\* max(max(0, min), min(multiplier * 2 ** (attempt_number - 1), max))
WaitExponential(n) ==
    Max(Max(0, WaitMin), Min(WaitMultiplier * 2 ^ (n - 1), WaitMax))

\* The order of the decorators: @retry is above @sleep_and_retry and @limits
\* on parse_detail_page and scrape_idaho_legislation, and below them on
\* download_pdf.
RetryOutermost(op) == op \in {"parse_detail_page", "scrape_idaho_legislation"}

\* A faulty variant of SleepAndRetry: the operations lack the decorator.
NoSleepAndRetry(op) == FALSE

\* @sleep_and_retry is on every operation, directly above @limits.
SleepAndRetry(op) == op \in Ops

\* A faulty variant of ShouldStop: one attempt more.
ShouldStopLate(n) == n >= StopAfterAttempt + 1

\* stop_after_attempt.__call__
ShouldStop(n) == n >= StopAfterAttempt

\* A faulty variant of ShouldRetry: every exception is retried.
ShouldRetryAny(outcome) == outcome # "ok"

\* retry_if_exception_type(requests.exceptions.RequestException): session.get
\* and raise_for_status raise subclasses of RequestException; what the body
\* raises after them (parsing, file writing) is of another type.
ShouldRetry(outcome) == outcome = "RequestException"

\* What one execution of the function body can end in.
Outcomes == {"ok", "RequestException", "OtherException"}

\* The limiter of one decorated function after d seconds.
Elapse(l, d) ==
    [op \in Ops |-> [l[op] EXCEPT !.elapsed = Min(Period, @ + d)]]

\* RateLimitDecorator.wrapper up to the test of num_calls: the window is
\* reset when the period has elapsed, then the call is counted.
Counted(l) ==
    LET reset == IF Period - l.elapsed <= 0
                 THEN [num_calls |-> 0, elapsed |-> 0]
                 ELSE l
    IN  [reset EXCEPT !.num_calls = @ + 1]

FetchIdle ==
    /\ fop = "none"
    /\ fpc = "idle"
    /\ attempt = 0
    /\ attempts = <<>>
    /\ admits = 0
    /\ sleeps = 0
    /\ waits = <<>>
    /\ ferr = "none"
    /\ limiter = [op \in Ops |-> [num_calls |-> 0, elapsed |-> 0]]
    /\ recentGets = 0
    /\ calls = 0

\* The three decorators are created when scrape.py is imported; the first
\* call comes within the same second or later.
FetchInit ==
    /\ fop = "none"
    /\ fpc = "idle"
    /\ attempt = 0
    /\ attempts = <<>>
    /\ admits = 0
    /\ sleeps = 0
    /\ waits = <<>>
    /\ ferr = "none"
    /\ \E e \in 0..Period :
         limiter = [op \in Ops |-> [num_calls |-> 0, elapsed |-> e]]
    /\ recentGets = 0
    /\ calls = 0

\* A caller calls one of the three operations: tenacity starts with attempt
\* number 1, and the first wrapper to act is the rate limiter in either
\* decorator order.
FetchCall(op) ==
    /\ fpc = "idle"
    /\ calls < MaxCalls
    /\ fop' = op
    /\ fpc' = "limit"
    /\ attempt' = 1
    /\ attempts' = <<>>
    /\ admits' = 0
    /\ sleeps' = 0
    /\ waits' = <<>>
    /\ ferr' = "none"
    /\ calls' = calls + 1
    /\ UNCHANGED <<limiter, recentGets>>
    /\ UNCHANGED nonFetchVars

\* The wrapper of @limits: counts the call and lets it through, or raises
\* RateLimitException, which the wrapper of @sleep_and_retry catches.
LimiterCheck ==
    /\ fpc = "limit"
    /\ limiter' = [limiter EXCEPT ![fop] = Counted(limiter[fop])]
    /\ IF limiter'[fop].num_calls > Calls
       THEN /\ fpc' = IF SleepAndRetry(fop) THEN "sleep" ELSE "raised"
            /\ ferr' = IF SleepAndRetry(fop) THEN ferr ELSE "RateLimitException"
            /\ admits' = admits
       ELSE /\ fpc' = "attempt"
            /\ ferr' = ferr
            /\ admits' = admits + 1
    /\ UNCHANGED <<fop, attempt, attempts, sleeps, waits, recentGets, calls>>
    /\ UNCHANGED nonFetchVars

\* sleep_and_retry: time.sleep(exception.period_remaining), then the call of
\* the @limits wrapper is repeated.
LimiterSleep ==
    /\ fpc = "sleep"
    /\ limiter' = Elapse(limiter, Period - limiter[fop].elapsed)
    /\ recentGets' = IF Period - limiter[fop].elapsed >= 1 THEN 0 ELSE recentGets
    /\ sleeps' = sleeps + 1
    /\ fpc' = "limit"
    /\ UNCHANGED <<fop, attempt, attempts, admits, waits, ferr, calls>>
    /\ UNCHANGED nonFetchVars

\* One execution of the function body: session.get is issued and the body
\* ends within the same second (d = 0) or later. tenacity then returns the
\* result, re-raises what it does not retry, gives up, or goes to sleep.
Attempt(outcome, d) ==
    /\ fpc = "attempt"
    /\ attempts' = Append(attempts, outcome)
    /\ recentGets' = IF d >= 1 THEN 0 ELSE recentGets + 1
    /\ limiter' = Elapse(limiter, d)
    /\ IF outcome = "ok"
       THEN fpc' = "returned" /\ ferr' = "none"
       ELSE IF ~ShouldRetry(outcome)
       THEN fpc' = "raised" /\ ferr' = outcome
       ELSE IF ShouldStop(attempt)
       THEN fpc' = "raised" /\ ferr' = "RetryError"
       ELSE fpc' = "backoff" /\ ferr' = "none"
    /\ UNCHANGED <<fop, attempt, admits, sleeps, waits, calls>>
    /\ UNCHANGED nonFetchVars

\* tenacity sleeps, then calls what @retry decorates: the rate-limit wrappers
\* where @retry is outermost, the function body where it is innermost.
Backoff ==
    /\ fpc = "backoff"
    /\ waits' = Append(waits, WaitExponential(attempt))
    /\ limiter' = Elapse(limiter, WaitExponential(attempt))
    /\ recentGets' = IF WaitExponential(attempt) >= 1 THEN 0 ELSE recentGets
    /\ attempt' = attempt + 1
    /\ fpc' = IF RetryOutermost(fop) THEN "limit" ELSE "attempt"
    /\ UNCHANGED <<fop, attempts, admits, sleeps, ferr, calls>>
    /\ UNCHANGED nonFetchVars

\* The caller has the result or the exception.
FetchReturn ==
    /\ fpc \in {"returned", "raised"}
    /\ fop' = "none"
    /\ fpc' = "idle"
    /\ attempt' = 0
    /\ attempts' = <<>>
    /\ admits' = 0
    /\ sleeps' = 0
    /\ waits' = <<>>
    /\ ferr' = "none"
    /\ UNCHANGED <<limiter, recentGets, calls>>
    /\ UNCHANGED nonFetchVars

\* A second passes between two calls.
Tick ==
    /\ fpc = "idle"
    /\ limiter' = Elapse(limiter, 1)
    /\ recentGets' = 0
    /\ \/ recentGets # 0
       \/ \E op \in Ops : limiter[op].elapsed < Period
    /\ UNCHANGED <<fop, fpc, attempt, attempts, admits, sleeps, waits, ferr, calls>>
    /\ UNCHANGED nonFetchVars

FetchNext ==
    \/ \E op \in Ops : FetchCall(op)
    \/ LimiterCheck
    \/ LimiterSleep
    \/ \E outcome \in Outcomes, d \in 0..1 : Attempt(outcome, d)
    \/ Backoff
    \/ FetchReturn
    \/ Tick

-----------------------------------------------------------------------------
(* scrape.py: the body of scrape_idaho_legislation after the response *)

\* URLs and paths are sequences of path segments and "/" separators.
Href_H0001 == <<"/", "sessioninfo", "/", "2026", "/", "legislation", "/", "H0001">>
Href_S1001 == <<"/", "sessioninfo", "/", "2026", "/", "legislation", "/", "S1001">>
Href_H0001_2025 == <<"/", "sessioninfo", "/", "2025", "/", "legislation", "/", "H0001">>
Href_trailing == <<"/", "legislation", "/", "H0002", "/">>

\* BASE_URL
BaseUrl == <<"https:", "/", "/", "legislature.idaho.gov">>

\* f"{BASE_URL}/wp-content/uploads/sessioninfo/2026/legislation/"
PdfUrlBase ==
    BaseUrl \o <<"/", "wp-content", "/", "uploads", "/", "sessioninfo", "/",
                 "2026", "/", "legislation", "/">>

\* A <td>: its text nodes, and its first <a> ("none", "nohref" or "href").
TextCell(text) == [text |-> text, a |-> "none", href |-> <<>>]
LinkCell(text, href) == [text |-> text, a |-> "href", href |-> href]
AnchorCell(text) == [text |-> text, a |-> "nohref", href |-> <<>>]

\* A mini-data-table block: whether it has a <tr> whose id starts with
\* "bill", and the <td> cells of that row (of its only row when it has none).
Table_skip == [billRow |-> FALSE, cells |-> <<TextCell(<<"skip">>)>>]
Table_H0001 ==
    [billRow |-> TRUE,
     cells |-> <<LinkCell(<<"H0001">>, Href_H0001),
                 TextCell(<<"Test Bill Title">>),
                 TextCell(<<"01/15/2026">>),
                 TextCell(<<"Introduced">>)>>]
Table_S1001 ==
    [billRow |-> TRUE,
     cells |-> <<LinkCell(<<"S1001">>, Href_S1001),
                 TextCell(<<"\n", " ", "Another Bill", " ">>),
                 TextCell(<<"01/20/2026">>),
                 TextCell(<<" ", "Passed", "\n">>),
                 TextCell(<<"extra">>)>>]
Table_H0001_2025 ==
    [billRow |-> TRUE,
     cells |-> <<LinkCell(<<"H0001">>, Href_H0001_2025),
                 TextCell(<<"Old Bill">>),
                 TextCell(<<"01/10/2025">>),
                 TextCell(<<"Law">>)>>]
Table_trailing ==
    [billRow |-> TRUE,
     cells |-> <<LinkCell(<<"H0002">>, Href_trailing),
                 TextCell(<<>>),
                 TextCell(<<"01/21/2026">>),
                 TextCell(<<"Introduced">>)>>]
Table_threeCells ==
    [billRow |-> TRUE,
     cells |-> <<LinkCell(<<"H0003">>, Href_S1001),
                 TextCell(<<"Short Row">>),
                 TextCell(<<"Introduced">>)>>]
Table_noBillId ==
    [billRow |-> FALSE,
     cells |-> <<LinkCell(<<"H0004">>, Href_S1001),
                 TextCell(<<"no bill id prefix">>),
                 TextCell(<<"01/22/2026">>),
                 TextCell(<<"Introduced">>)>>]
Table_noLink ==
    [billRow |-> TRUE,
     cells |-> <<TextCell(<<"H0005">>),
                 TextCell(<<"No Link">>),
                 TextCell(<<"01/23/2026">>),
                 TextCell(<<"Introduced">>)>>]
Table_noHref ==
    [billRow |-> TRUE,
     cells |-> <<AnchorCell(<<"H0006">>),
                 TextCell(<<"No Href">>),
                 TextCell(<<"01/24/2026">>),
                 TextCell(<<"Introduced">>)>>]

Tables ==
    {Table_skip, Table_H0001, Table_S1001, Table_H0001_2025, Table_trailing,
     Table_threeCells, Table_noBillId, Table_noLink, Table_noHref}

\* The number of mini-data-table blocks on the listing page.
MaxTables == 5

Pages == UNION {[1..n -> Tables] : n \in 0..MaxTables}

\* detail_link.split("/")[-1]
LastSegment(s) == Split(s, "/")[Len(Split(s, "/"))]

\* A faulty variant of MiniTables: no block is skipped.
MiniTablesAll(p) == p

\* soup.find_all("table", class_="mini-data-table")[2:]
MiniTables(p) == SubSeq(p, 3, Len(p))

\* One pass of the loop body over a block: the block is skipped, a record
\* [bill_number, bill_title, status, detail_link, pdf_url] is appended, or
\* link_tag["href"] raises (TypeError on None, KeyError without the attribute).
TableRecord(t) ==
    IF ~t.billRow THEN [kind |-> "skip", rec |-> <<>>]
    ELSE IF Len(t.cells) < 4 THEN [kind |-> "skip", rec |-> <<>>]
    ELSE IF t.cells[1].a = "none" THEN [kind |-> "TypeError", rec |-> <<>>]
    ELSE IF t.cells[1].a = "nohref" THEN [kind |-> "KeyError", rec |-> <<>>]
    ELSE [kind |-> "record",
          rec |-> <<LastSegment(t.cells[1].href),
                    IF Len(t.cells) > 1 THEN Strip(t.cells[2].text) ELSE <<>>,
                    Strip(t.cells[4].text),
                    t.cells[1].href,
                    PdfUrlBase \o LastSegment(t.cells[1].href) \o <<".pdf">>>>]

IndexIdle ==
    /\ page = <<>>
    /\ miniTables = <<>>
    /\ ipos = 0
    /\ results = <<>>
    /\ ipc = "idle"
    /\ ierr = "none"

\* The response of the listing URL has arrived with a 2xx status.
IndexInit ==
    /\ page \in Pages
    /\ miniTables = <<>>
    /\ ipos = 0
    /\ results = <<>>
    /\ ipc = "response"
    /\ ierr = "none"

\* soup = BeautifulSoup(...); mini_tables = ...[2:]; results = []
ScrapeFindTables ==
    /\ ipc = "response"
    /\ miniTables' = MiniTables(page)
    /\ ipos' = 1
    /\ results' = <<>>
    /\ ipc' = "loop"
    /\ UNCHANGED <<page, ierr>>
    /\ UNCHANGED nonIndexVars

\* One pass of `for table in mini_tables`
ScrapeTable ==
    /\ ipc = "loop"
    /\ ipos <= Len(miniTables)
    /\ LET r == TableRecord(miniTables[ipos])
       IN  /\ results' = IF r.kind = "record" THEN Append(results, r.rec) ELSE results
           /\ ipc' = IF r.kind \in {"skip", "record"} THEN "loop" ELSE "raised"
           /\ ierr' = IF r.kind \in {"skip", "record"} THEN ierr ELSE r.kind
    /\ ipos' = ipos + 1
    /\ UNCHANGED <<page, miniTables>>
    /\ UNCHANGED nonIndexVars

\* return results
ScrapeReturn ==
    /\ ipc = "loop"
    /\ ipos > Len(miniTables)
    /\ ipc' = "returned"
    /\ UNCHANGED <<page, miniTables, ipos, results, ierr>>
    /\ UNCHANGED nonIndexVars

IndexNext ==
    \/ ScrapeFindTables
    \/ ScrapeTable
    \/ ScrapeReturn

-----------------------------------------------------------------------------
(* scrape.py: the body of parse_detail_page after the response *)

\* The characters the cell texts are made of.
TextChars == {"b", "y", " ", "J"}

\* The length of the text of the third cell.
MaxText == 5

Texts == UNION {[1..n -> TextChars] : n \in 0..MaxText}

\* A detail page: whether it has a table of class bill-table, whether that
\* table has a <tr>, and the texts of the <td> cells of the first <tr>.
DetailPage(text) ==
    [table |-> TRUE, row |-> TRUE, cells |-> <<<<"J">>, <<"J", " ", "b">>, text>>]
Detail_noTable == [table |-> FALSE, row |-> FALSE, cells |-> <<>>]
Detail_noRow == [table |-> TRUE, row |-> FALSE, cells |-> <<>>]
Detail_twoCells == [table |-> TRUE, row |-> TRUE, cells |-> <<<<"J">>, <<"b", "y", " ">>>>]

DetailPages ==
    {Detail_noTable, Detail_noRow, Detail_twoCells} \cup {DetailPage(t) : t \in Texts}

\* str.replace(old, ""): every occurrence of old, from left to right
RECURSIVE Remove(_, _)
Remove(s, old) ==
    IF Len(s) < Len(old) THEN s
    ELSE IF SubSeq(s, 1, Len(old)) = old
         THEN Remove(SubSeq(s, Len(old) + 1, Len(s)), old)
         ELSE <<Head(s)>> \o Remove(Tail(s), old)

\* sponsor_text.replace("by ", "").strip()
SponsorOf(text) == Strip(Remove(text, <<"b", "y", " ">>))

DetailIdle ==
    /\ dpage = Detail_noTable
    /\ dpc = "idle"
    /\ sponsorText = <<>>
    /\ sponsor = <<>>
    /\ derr = "none"

\* The response of the detail URL has arrived with a 2xx status.
DetailInit ==
    /\ dpage \in DetailPages
    /\ dpc = "response"
    /\ sponsorText = <<>>
    /\ sponsor = <<>>
    /\ derr = "none"

\* bill_table = soup.find(...); row = bill_table.find("tr");
\* cells = row.find_all("td"); sponsor_text = cells[2].get_text(strip=True).
\* find returns None when nothing matches, and None has no find.
DetailCell ==
    /\ dpc = "response"
    /\ IF ~dpage.table \/ ~dpage.row
       THEN dpc' = "raised" /\ derr' = "AttributeError" /\ sponsorText' = sponsorText
       ELSE IF Len(dpage.cells) < 3
       THEN dpc' = "raised" /\ derr' = "IndexError" /\ sponsorText' = sponsorText
       ELSE dpc' = "text" /\ derr' = derr /\ sponsorText' = Strip(dpage.cells[3])
    /\ UNCHANGED <<dpage, sponsor>>
    /\ UNCHANGED nonDetailVars

\* return sponsor_text.replace("by ", "").strip()
DetailReturn ==
    /\ dpc = "text"
    /\ sponsor' = SponsorOf(sponsorText)
    /\ dpc' = "returned"
    /\ UNCHANGED <<dpage, sponsorText, derr>>
    /\ UNCHANGED nonDetailVars

DetailNext ==
    \/ DetailCell
    \/ DetailReturn

-----------------------------------------------------------------------------
(* scrape.py: main *)

\* The number of records of the listing.
MaxBills == 2

\* A block whose link has an empty href: its detail_link is empty.
Table_emptyHref ==
    [billRow |-> TRUE,
     cells |-> <<LinkCell(<<"H0007">>, <<>>),
                 TextCell(<<"Empty Link">>),
                 TextCell(<<"01/25/2026">>),
                 TextCell(<<"Introduced">>)>>]

\* The records scrape_idaho_legislation can return.
Records ==
    {TableRecord(t).rec : t \in {Table_H0001, Table_S1001, Table_emptyHref}}

Listings == UNION {[1..n -> Records] : n \in 0..MaxBills}

\* What the site serves: the third cell of the detail page of a link, and the
\* body of the PDF of a URL.
DetailText(link) ==
    IF link = Href_H0001 THEN <<"b", "y", " ", "J">>
    ELSE IF link = Href_S1001 THEN <<"b", "y", " ", " ", "S", " ">>
    ELSE <<"b", "y", " ", "?">>

PdfBody(url) == <<"%PDF">> \o url

\* What a fetch operation can end in, seen from main: its result, the
\* RetryError of tenacity, or an exception that is not retried.
FetchOutcomes == {"ok", "RetryError", "OtherException"}

\* os.path.join("Data", datarun)
DirPath(d) == <<"Data", "/">> \o d

\* os.path.join(dir_path, url.split("/")[-1])
PdfLocalPath(dir, url) == dir \o <<"/">> \o LastSegment(url)

\* os.path.join(dir_path, f"idaho_bills_{datarun}.csv")
CsvPath(d) == DirPath(d) \o <<"/", "idaho_bills_">> \o d \o <<".csv">>

\* datarun = os.getenv("DATARUN", "").strip(); if not datarun: datarun = today
MainDatarun(e, t) ==
    IF Strip(IF e.set THEN e.val ELSE <<>>) # <<>>
    THEN Strip(IF e.set THEN e.val ELSE <<>>)
    ELSE t

\* A faulty variant of LinkOf: the link of the first row, for every row.
LinkOfFirst(df, i) == df[1][4]

\* for link in bill_df["detail_link"]: the link of row i
LinkOf(df, i) == df[i][4]

\* for pdf_url in bill_df["pdf_url"]: the URL of row i
PdfUrlOf(df, i) == df[i][5]

\* The rows of bill_df with the columns sponsor and local_pdf_path.
CsvRows(df, sp, paths) ==
    [i \in 1..Len(df) |-> df[i] \o <<sp[i], paths[i]>>]

NoSession == [state |-> "none", closes |-> 0]
NoCsv == [exists |-> FALSE, written |-> FALSE, path |-> <<>>, rows |-> <<>>]

\* A CSV that an earlier run with the same identifier left at the path.
OldCsv == [exists |-> TRUE, written |-> FALSE, path |-> <<>>, rows |-> <<>>]

Event(ev, i, outcome) == [ev |-> ev, i |-> i, outcome |-> outcome]

MainIdle ==
    /\ mpc = "idle"
    /\ today = R_01_15_2026
    /\ datarun = <<>>
    /\ sidecarBefore = NoFile
    /\ session = NoSession
    /\ billData = <<>>
    /\ sponsors = <<>>
    /\ localPdfPaths = <<>>
    /\ pdfFiles = {}
    /\ csvFile = NoCsv
    /\ mlog = <<>>
    /\ merr = "none"

\* main is started in some environment: DATARUN unset, blank or a value, and
\* Data/.datarun absent or left by an earlier run.
MainInit ==
    /\ env \in {Unset} \cup {[set |-> TRUE, val |-> v] : v \in EnvValues}
    /\ datarunFile \in {NoFile} \cup {[exists |-> TRUE, content |-> c] : c \in OldContents}
    /\ dataDir = {}
    /\ lastSave = NoSave
    /\ cpc = "ready"
    /\ cres = NoResult
    /\ mpc = "start"
    /\ today \in {R_01_15_2026, R_02_08_2026}
    /\ datarun = <<>>
    /\ sidecarBefore = datarunFile
    /\ session = NoSession
    /\ billData = <<>>
    /\ sponsors = <<>>
    /\ localPdfPaths = <<>>
    /\ pdfFiles = {}
    /\ csvFile \in {NoCsv, OldCsv}
    /\ mlog = <<>>
    /\ merr = "none"

\* A faulty variant of MainSaveDatarun: the identifier is not persisted here.
MainSaveDatarunLate ==
    /\ mpc = "start"
    /\ datarun' = MainDatarun(env, today)
    /\ mpc' = "session"
    /\ UNCHANGED <<env, datarunFile>>
    /\ UNCHANGED <<today, sidecarBefore, session, billData, sponsors,
                   localPdfPaths, pdfFiles, csvFile, mlog, merr>>
    /\ UNCHANGED nonMainVars

\* datarun = ...; save_datarun(datarun)
MainSaveDatarun ==
    /\ mpc = "start"
    /\ datarun' = MainDatarun(env, today)
    /\ datarunFile' = SaveDatarunFile(datarunFile, datarun')
    /\ mlog' = Append(mlog, Event("save_datarun", 0, "ok"))
    /\ mpc' = "session"
    /\ UNCHANGED env
    /\ UNCHANGED <<today, sidecarBefore, session, billData, sponsors,
                   localPdfPaths, pdfFiles, csvFile, merr>>
    /\ UNCHANGED nonMainVars

\* os.makedirs(dir_path, exist_ok=True); session = requests.Session()
MainSession ==
    /\ mpc = "session"
    /\ session' = [state |-> "open", closes |-> 0]
    /\ mpc' = "index"
    /\ UNCHANGED <<env, datarunFile>>
    /\ UNCHANGED <<today, datarun, sidecarBefore, billData, sponsors,
                   localPdfPaths, pdfFiles, csvFile, mlog, merr>>
    /\ UNCHANGED nonMainVars

\* bill_data = scrape_idaho_legislation(session, LEGISLATION_URL); an
\* exception leaves the try block for the finally clause.
MainScrapeIndex(outcome, listing) ==
    /\ mpc = "index"
    /\ mlog' = Append(mlog, Event("index", 0, outcome))
    /\ IF outcome = "ok"
       THEN billData' = listing /\ mpc' = "sponsors" /\ merr' = merr
       ELSE billData' = billData /\ mpc' = "finally" /\ merr' = outcome
    /\ UNCHANGED <<env, datarunFile>>
    /\ UNCHANGED <<today, datarun, sidecarBefore, session, sponsors,
                   localPdfPaths, pdfFiles, csvFile>>
    /\ UNCHANGED nonMainVars

\* A faulty variant of MainSponsor: a failed sponsor fetch leaves the sponsor empty.
MainSponsorLenient(outcome) ==
    /\ mpc = "sponsors"
    /\ Len(sponsors) < Len(billData)
    /\ LET i == Len(sponsors) + 1
           link == LinkOf(billData, i)
       IN  IF link = <<>>
           THEN /\ outcome = "ok"
                /\ sponsors' = Append(sponsors, <<>>)
                /\ mlog' = mlog
           ELSE /\ mlog' = Append(mlog, Event("detail", i, outcome))
                /\ sponsors' = Append(sponsors,
                       IF outcome = "ok" THEN SponsorOf(Strip(DetailText(link)))
                       ELSE <<>>)
    /\ UNCHANGED <<mpc, merr>>
    /\ UNCHANGED <<env, datarunFile>>
    /\ UNCHANGED <<today, datarun, sidecarBefore, session, billData,
                   localPdfPaths, pdfFiles, csvFile>>
    /\ UNCHANGED nonMainVars

\* One pass of the sponsor loop: parse_detail_page(session, link) if link
\* else ""; sponsors.append(sponsor); time.sleep(0.1)
MainSponsor(outcome) ==
    /\ mpc = "sponsors"
    /\ Len(sponsors) < Len(billData)
    /\ LET i == Len(sponsors) + 1
           link == LinkOf(billData, i)
       IN  IF link = <<>>
           THEN /\ outcome = "ok"
                /\ sponsors' = Append(sponsors, <<>>)
                /\ mlog' = mlog
                /\ UNCHANGED <<mpc, merr>>
           ELSE /\ mlog' = Append(mlog, Event("detail", i, outcome))
                /\ IF outcome = "ok"
                   THEN /\ sponsors' = Append(sponsors, SponsorOf(Strip(DetailText(link))))
                        /\ UNCHANGED <<mpc, merr>>
                   ELSE /\ sponsors' = sponsors
                        /\ mpc' = "finally"
                        /\ merr' = outcome
    /\ UNCHANGED <<env, datarunFile>>
    /\ UNCHANGED <<today, datarun, sidecarBefore, session, billData,
                   localPdfPaths, pdfFiles, csvFile>>
    /\ UNCHANGED nonMainVars

\* bill_df["sponsor"] = sponsors; local_pdf_paths = []
MainSponsorsDone ==
    /\ mpc = "sponsors"
    /\ Len(sponsors) = Len(billData)
    /\ mpc' = "pdfs"
    /\ UNCHANGED <<env, datarunFile>>
    /\ UNCHANGED <<today, datarun, sidecarBefore, session, billData, sponsors,
                   localPdfPaths, pdfFiles, csvFile, mlog, merr>>
    /\ UNCHANGED nonMainVars

\* One pass of the download loop: path = download_pdf(session, pdf_url,
\* dir_path); local_pdf_paths.append(path); time.sleep(0.1)
MainDownload(outcome) ==
    /\ mpc = "pdfs"
    /\ Len(localPdfPaths) < Len(billData)
    /\ LET j == Len(localPdfPaths) + 1
           url == PdfUrlOf(billData, j)
           path == PdfLocalPath(DirPath(datarun), url)
       IN  /\ mlog' = Append(mlog, Event("pdf", j, outcome))
           /\ IF outcome = "ok"
              THEN /\ pdfFiles' = {f \in pdfFiles : f[1] # path} \cup {<<path, PdfBody(url)>>}
                   /\ localPdfPaths' = Append(localPdfPaths, path)
                   /\ UNCHANGED <<mpc, merr>>
              ELSE /\ UNCHANGED <<pdfFiles, localPdfPaths>>
                   /\ mpc' = "finally"
                   /\ merr' = outcome
    /\ UNCHANGED <<env, datarunFile>>
    /\ UNCHANGED <<today, datarun, sidecarBefore, session, billData, sponsors,
                   csvFile>>
    /\ UNCHANGED nonMainVars

\* bill_df["local_pdf_path"] = local_pdf_paths; bill_df.to_csv(...), which
\* writes the file or raises OSError
MainWriteCsv(outcome) ==
    /\ mpc = "pdfs"
    /\ Len(localPdfPaths) = Len(billData)
    /\ mlog' = Append(mlog, Event("csv", 0, outcome))
    /\ IF outcome = "ok"
       THEN /\ csvFile' = [exists |-> TRUE, written |-> TRUE,
                           path |-> CsvPath(datarun),
                           rows |-> CsvRows(billData, sponsors, localPdfPaths)]
            /\ merr' = merr
       ELSE /\ csvFile' = csvFile
            /\ merr' = "OSError"
    /\ mpc' = "finally"
    /\ UNCHANGED <<env, datarunFile>>
    /\ UNCHANGED <<today, datarun, sidecarBefore, session, billData, sponsors,
                   localPdfPaths, pdfFiles>>
    /\ UNCHANGED nonMainVars

\* A faulty variant of MainClose: the session is closed at the end of the try block
\* and not in a finally clause.
MainCloseOnSuccess ==
    /\ mpc = "finally"
    /\ IF merr = "none"
       THEN /\ session' = [state |-> "closed", closes |-> session.closes + 1]
            /\ mlog' = Append(mlog, Event("close", 0, "ok"))
       ELSE UNCHANGED <<session, mlog>>
    /\ mpc' = IF merr = "none" THEN "done" ELSE "aborted"
    /\ UNCHANGED <<env, datarunFile>>
    /\ UNCHANGED <<today, datarun, sidecarBefore, billData, sponsors,
                   localPdfPaths, pdfFiles, csvFile, merr>>
    /\ UNCHANGED nonMainVars

\* finally: session.close(); then main returns or the exception goes on.
MainClose ==
    /\ mpc = "finally"
    /\ session' = [state |-> "closed", closes |-> session.closes + 1]
    /\ mlog' = Append(mlog, Event("close", 0, "ok"))
    /\ mpc' = IF merr = "none" THEN "done" ELSE "aborted"
    /\ UNCHANGED <<env, datarunFile>>
    /\ UNCHANGED <<today, datarun, sidecarBefore, billData, sponsors,
                   localPdfPaths, pdfFiles, csvFile, merr>>
    /\ UNCHANGED nonMainVars

\* The next stage of the pipeline starts in the same environment after main
\* has ended, and calls get_datarun().
MainThenGetDatarun ==
    /\ mpc \in {"done", "aborted"}
    /\ cpc = "ready"
    /\ \E order \in Orderings(dataDir) :
         /\ cres' = GetDatarun(env, datarunFile, order)
         /\ cpc' = IF cres'.kind = "exit" THEN "exited" ELSE "returned"
    /\ UNCHANGED <<env, datarunFile, dataDir, lastSave>>
    /\ UNCHANGED mainVars
    /\ UNCHANGED <<fetchVars, indexVars, detailVars, downloadVars>>

MainNext ==
    \/ MainSaveDatarun
    \/ MainSession
    \/ \E outcome \in FetchOutcomes, listing \in Listings :
         MainScrapeIndex(outcome, listing)
    \/ \E outcome \in FetchOutcomes : MainSponsor(outcome)
    \/ MainSponsorsDone
    \/ \E outcome \in FetchOutcomes : MainDownload(outcome)
    \/ \E outcome \in {"ok", "OSError"} : MainWriteCsv(outcome)
    \/ MainClose
    \/ MainThenGetDatarun

-----------------------------------------------------------------------------
(* scrape.py: the body of download_pdf under @retry *)

\* The chunks a response body can consist of.
Chunks == {"a", "b"}

\* The number of chunks of a response body.
MaxChunks == 2

Bodies == UNION {[1..n -> Chunks] : n \in 0..MaxChunks}

PdfUrls ==
    {PdfUrlBase \o <<"H0001", ".pdf">>, PdfUrlBase \o <<"S1001", ".pdf">>}

NoPdfFile == [exists |-> FALSE, content |-> <<>>]

\* The file an earlier run left at the path.
OldPdfFile == [exists |-> TRUE, content |-> <<"o", "l", "d">>]

\* A faulty variant of OpenWb: open(pdf_local_path, "ab").
OpenAb(f) == [exists |-> TRUE, content |-> f.content]

\* open(pdf_local_path, "wb"): the file is created or truncated.
OpenWb(f) == [exists |-> TRUE, content |-> <<>>]

DownloadIdle ==
    /\ wpc = "idle"
    /\ wurl = <<>>
    /\ wdir = <<>>
    /\ wattempt = 0
    /\ wbody = <<>>
    /\ wpos = 0
    /\ wfile = NoPdfFile
    /\ wres = <<>>
    /\ werr = "none"
    /\ wlog = <<>>

\* download_pdf(session, url, dir_path) is called and let through by the
\* rate limiter: tenacity starts attempt 1 of the body.
DownloadInit ==
    /\ wpc = "get"
    /\ wurl \in PdfUrls
    /\ wdir \in {DirPath(R_01_15_2026), DirPath(R_12_25_2025)}
    /\ wattempt = 1
    /\ wbody = <<>>
    /\ wpos = 0
    /\ wfile \in {NoPdfFile, OldPdfFile}
    /\ wres = <<>>
    /\ werr = "none"
    /\ wlog = <<>>

\* What tenacity does with an exception of the body: re-raise what is not
\* retried, give up after the last attempt, or run the body again.
DownloadFailed(exc, at) ==
    /\ wlog' = Append(wlog, [at |-> at, written |-> wfile'.content])
    /\ IF ~ShouldRetry(exc)
       THEN wpc' = "raised" /\ werr' = exc /\ wattempt' = wattempt
       ELSE IF ShouldStop(wattempt)
       THEN wpc' = "raised" /\ werr' = "RetryError" /\ wattempt' = wattempt
       ELSE wpc' = "get" /\ werr' = werr /\ wattempt' = wattempt + 1

\* response = session.get(url, stream=True, ...); response.raise_for_status()
DownloadGet(outcome, body) ==
    /\ wpc = "get"
    /\ wpos' = 0
    /\ wfile' = wfile
    /\ IF outcome = "ok"
       THEN /\ wbody' = body
            /\ wpc' = "open"
            /\ UNCHANGED <<wattempt, werr, wlog>>
       ELSE /\ wbody' = <<>>
            /\ DownloadFailed(outcome, "get")
    /\ UNCHANGED <<wurl, wdir, wres>>
    /\ UNCHANGED nonDownloadVars

\* with open(pdf_local_path, "wb") as f
DownloadOpen(outcome) ==
    /\ wpc = "open"
    /\ IF outcome = "ok"
       THEN /\ wfile' = OpenWb(wfile)
            /\ wpc' = "write"
            /\ UNCHANGED <<wattempt, werr, wlog>>
       ELSE /\ wfile' = wfile
            /\ DownloadFailed("OtherException", "open")
    /\ UNCHANGED <<wurl, wdir, wbody, wpos, wres>>
    /\ UNCHANGED nonDownloadVars

\* One pass of `for chunk in response.iter_content(chunk_size=8192):
\* f.write(chunk)`: the chunk arrives and is written, the stream breaks
\* (a RequestException), or the write fails (OSError); the with statement
\* closes the file in each case.
DownloadChunk(outcome) ==
    /\ wpc = "write"
    /\ wpos < Len(wbody)
    /\ IF outcome = "ok"
       THEN /\ wfile' = [wfile EXCEPT !.content = Append(@, wbody[wpos + 1])]
            /\ wpos' = wpos + 1
            /\ UNCHANGED <<wpc, wattempt, werr, wlog>>
       ELSE /\ wfile' = wfile
            /\ wpos' = wpos
            /\ DownloadFailed(outcome, "stream")
    /\ UNCHANGED <<wurl, wdir, wbody, wres>>
    /\ UNCHANGED nonDownloadVars

\* The stream has ended: the file is closed; return pdf_local_path
DownloadReturn ==
    /\ wpc = "write"
    /\ wpos = Len(wbody)
    /\ wres' = PdfLocalPath(wdir, wurl)
    /\ wpc' = "returned"
    /\ UNCHANGED <<wurl, wdir, wattempt, wbody, wpos, wfile, werr, wlog>>
    /\ UNCHANGED nonDownloadVars

DownloadNext ==
    \/ \E outcome \in {"ok", "RequestException"}, body \in Bodies :
         DownloadGet(outcome, body)
    \/ \E outcome \in {"ok", "OtherException"} : DownloadOpen(outcome)
    \/ \E outcome \in Outcomes : DownloadChunk(outcome)
    \/ DownloadReturn

-----------------------------------------------------------------------------
(* Specifications *)

InitConfig == ConfigInit /\ FetchIdle /\ IndexIdle /\ DetailIdle /\ MainIdle
    /\ DownloadIdle

SpecConfig == InitConfig /\ [][ConfigNext]_vars

InitFetch == ConfigIdle /\ FetchInit /\ IndexIdle /\ DetailIdle /\ MainIdle
    /\ DownloadIdle

SpecFetch == InitFetch /\ [][FetchNext]_vars

InitIndex == ConfigIdle /\ FetchIdle /\ IndexInit /\ DetailIdle /\ MainIdle
    /\ DownloadIdle

SpecIndex == InitIndex /\ [][IndexNext]_vars

InitDetail == ConfigIdle /\ FetchIdle /\ IndexIdle /\ DetailInit /\ MainIdle
    /\ DownloadIdle

SpecDetail == InitDetail /\ [][DetailNext]_vars

InitMain == MainInit /\ FetchIdle /\ IndexIdle /\ DetailIdle /\ DownloadIdle

InitDownload ==
    ConfigIdle /\ FetchIdle /\ IndexIdle /\ DetailIdle /\ MainIdle
    /\ DownloadInit

SpecDownload == InitDownload /\ [][DownloadNext]_vars

SpecMain == InitMain /\ [][MainNext]_vars

\* The sleeps and the rate-limit test end: the process is single-threaded and
\* nothing else runs.
SpecFetchLive ==
    /\ SpecFetch
    /\ WF_vars(LimiterSleep)
    /\ WF_vars(LimiterCheck)

-----------------------------------------------------------------------------
(* Properties of the DATARUN resolver *)

\* The state right after a call of get_datarun.
GetDatarunDone == cpc \in {"returned", "exited"}

\* The tiers as get_datarun sees them.
OverrideSet == env.set /\ env.val # <<>>
OverrideNonBlank == env.set /\ Strip(env.val) # <<>>
SidecarHasContent == datarunFile.exists /\ Strip(datarunFile.content) # <<>>
EnrichedIds == {s \in dataDir : EnrichedRe(s)}

YearOf(d) == ToInt(SubSeq(d, 7, 10))
MonthOf(d) == ToInt(SubSeq(d, 1, 2))
DayOf(d) == ToInt(SubSeq(d, 4, 5))

\* d is an earlier date than e: year first, then month, then day.
Earlier(d, e) ==
    \/ YearOf(d) < YearOf(e)
    \/ YearOf(d) = YearOf(e) /\ MonthOf(d) < MonthOf(e)
    \/ YearOf(d) = YearOf(e) /\ MonthOf(d) = MonthOf(e) /\ DayOf(d) < DayOf(e)

IsLatest(d) == d \in EnrichedIds /\ \A e \in EnrichedIds : ~Earlier(d, e)

\* C1: get_datarun returns the value of the highest tier that is available,
\* in the order override (DATARUN set to a non-empty string; its value is the
\* trimmed string), sidecar file (present with non-blank content; its value is
\* the trimmed content), directory scan (an enriched file present; its value
\* is the latest identifier). The value returned is the value of one tier.
C1_TierPriority ==
    GetDatarunDone =>
        /\ OverrideSet =>
             cres.kind = "return" /\ cres.val = Strip(env.val)
        /\ ~OverrideSet /\ SidecarHasContent =>
             cres.kind = "return" /\ cres.val = Strip(datarunFile.content)
        /\ ~OverrideSet /\ ~SidecarHasContent /\ EnrichedIds # {} =>
             cres.kind = "return" /\ IsLatest(cres.val)

\* All three tiers are available, with three different values, and the
\* override was returned.
C1_Witness ==
    /\ cpc = "returned"
    /\ OverrideNonBlank /\ SidecarHasContent /\ EnrichedIds # {}
    /\ cres.val = R_12_25_2025
    /\ Strip(datarunFile.content) # cres.val
    /\ cres.val \notin EnrichedIds

\* C2: get_datarun exits if and only if no tier yields a value: no override
\* that is non-empty after trimming, no sidecar file with non-blank content,
\* no enriched file with an MM_DD_YYYY identifier.
C2_ExitIffNoTier ==
    GetDatarunDone =>
        (cpc = "exited" <=>
            ~OverrideNonBlank /\ ~SidecarHasContent /\ EnrichedIds = {})

\* C3: a DATARUN that is set and blank is treated as absent (the sidecar file
\* and then the directory scan decide), and the empty string is never
\* returned.
C3_BlankOverrideIsAbsent ==
    GetDatarunDone =>
        /\ cres.kind = "return" => cres.val # <<>>
        /\ env.set /\ ~OverrideNonBlank =>
             /\ SidecarHasContent => cres.val = Strip(datarunFile.content)
             /\ ~SidecarHasContent /\ EnrichedIds # {} => IsLatest(cres.val)
             /\ ~SidecarHasContent /\ EnrichedIds = {} => cpc = "exited"

\* C4: _detect_datarun_from_files returns the identifier with the greatest
\* (year, month, day), whatever the order in which glob lists the files, and
\* None when no file name carries an identifier.
C4_DetectLatest ==
    cpc = "detected" =>
        /\ EnrichedIds = {} => cres.kind = "detected_none"
        /\ EnrichedIds # {} => cres.kind = "detected" /\ IsLatest(cres.val)
        /\ \A o \in Orderings(dataDir) :
             DetectDatarunFromFiles(o).val = cres.val

\* The three files of the test, listed with the latest one not first. The
\* latest one is neither the greatest string nor the greatest month.
C4_Witness ==
    /\ cpc = "detected"
    /\ {R_01_15_2026, R_04_30_2025, R_12_01_2025} \subseteq dataDir
    /\ cres.val = R_01_15_2026
    /\ cres.order[1] # R_01_15_2026

\* C5: with the override absent, get_datarun returns the argument of the
\* latest save_datarun call, trimmed, when that argument is not blank,
\* whatever was saved before and whatever enriched files exist.
C5_SaveThenResolve ==
    GetDatarunDone /\ ~OverrideSet /\ lastSave.some /\ Strip(lastSave.val) # <<>> =>
        cres.kind = "return" /\ cres.val = Strip(lastSave.val)

\* A padded value was saved over earlier content, enriched files exist, and
\* the trimmed value came back.
C5_Witness ==
    /\ cpc = "returned"
    /\ ~env.set
    /\ lastSave.some /\ lastSave.over
    /\ lastSave.val # Strip(lastSave.val)
    /\ EnrichedIds # {}
    /\ cres.val = R_03_15_2026

-----------------------------------------------------------------------------
(* Properties of the fetch operations *)

AllFailed(h) == \A i \in 1..Len(h) : h[i] = "RequestException"

\* C6: for each operation, when the first k-1 attempts fail with a transport
\* failure and attempt k <= 5 succeeds, the operation returns the result of
\* attempt k; when five attempts in a row fail it ends in an error after
\* exactly 5 attempts; there is never a 6th attempt.
C6_RetryPolicy ==
    /\ Len(attempts) <= 5
    /\ fpc = "returned" <=>
         /\ attempts # <<>>
         /\ attempts[Len(attempts)] = "ok"
         /\ AllFailed(SubSeq(attempts, 1, Len(attempts) - 1))
    /\ attempts # <<>> /\ AllFailed(attempts) =>
         IF Len(attempts) = 5
         THEN fpc = "raised" /\ ferr = "RetryError"
         ELSE fpc \in {"backoff", "limit", "sleep", "attempt"}
    /\ ferr = "RetryError" => Len(attempts) = 5 /\ AllFailed(attempts)

\* download_pdf returns what its fifth attempt got, after four failures.
C6_Witness ==
    /\ fop = "download_pdf"
    /\ fpc = "returned"
    /\ Len(attempts) = 5
    /\ Len(waits) = 4

\* C17: an attempt that received its response and then failed for another
\* reason than the transport is the last attempt of the operation: the
\* failure reaches the caller at once, with no backoff and no retry after it;
\* when it is the first attempt, the operation has made exactly one attempt
\* and has not waited.
C17_OnlyTransportRetried ==
    /\ \A k \in 1..Len(attempts) :
         attempts[k] = "OtherException" =>
           /\ k = Len(attempts)
           /\ fpc = "raised"
           /\ ferr = "OtherException"
           /\ Len(waits) = k - 1
    /\ attempts # <<>> /\ attempts[1] = "OtherException" =>
         Len(attempts) = 1 /\ waits = <<>>
    /\ ferr = "OtherException" =>
         attempts # <<>> /\ attempts[Len(attempts)] = "OtherException"

\* parse_detail_page got its response at once and failed on the page.
C17_Witness ==
    /\ fop = "parse_detail_page"
    /\ fpc = "raised"
    /\ ferr = "OtherException"
    /\ attempts = <<"OtherException">>
    /\ waits = <<>>

\* C19: the waits after failed attempts 1, 2, 3 and 4 are 4, 8, 16 and 30
\* seconds, and no wait is below 4 or above 30 seconds.
C19_BackoffDoubles ==
    /\ Len(waits) <= 4
    /\ \A k \in 1..Len(waits) :
         /\ waits[k] = <<4, 8, 16, 30>>[k]
         /\ waits[k] >= 4
         /\ waits[k] <= 30

\* C7: for each operation every HTTP attempt, retries included, is let
\* through by the rate limiter first: the admissions of a call are as many as
\* its HTTP attempts.
C7_AdmissionPerAttempt ==
    fpc \in {"returned", "raised", "backoff"} => admits = Len(attempts)

\* C8: no more than 10 GET requests are issued within any one second,
\* whatever operations are called and whatever they retry.
C8_TenPerSecond == recentGets <= 10

\* C9: a call that finds the budget of its window used up is not dropped and
\* not failed: it sleeps, is then let through and executed; the sleep is not
\* reported to the caller and is not a retry attempt.
C9_BlockingNotFailing ==
    /\ [](ferr # "RateLimitException")
    /\ [](fpc = "sleep" => limiter[fop].num_calls > 10 /\ ferr = "none")
    /\ [](fpc \in {"limit", "sleep", "attempt"} => attempt = Len(attempts) + 1)
    /\ [](fpc = "attempt" => admits >= 1 /\ limiter[fop].num_calls <= 10)
    /\ (fpc = "sleep") ~> (fpc = "attempt")

\* The 11th call in a row has slept once and has returned from its first
\* attempt.
C9_Witness ==
    /\ calls = 11
    /\ fpc = "returned"
    /\ sleeps = 1
    /\ attempt = 1
    /\ attempts = <<"ok">>

-----------------------------------------------------------------------------
(* Properties of the index parser *)

\* The blocks of the page that yield a record: not one of the first two, with
\* a row whose id starts with "bill", that row with at least 4 cells.
Qualifying == {i \in 3..Len(page) : page[i].billRow /\ Len(page[i].cells) >= 4}

\* The k-th qualifying block in document order.
QualifyingAt(k) ==
    CHOOSE i \in Qualifying : Cardinality({j \in Qualifying : j <= i}) = k

\* The final path segment of a URL: what follows its last "/".
FinalSegment(url) ==
    LET slashes == {i \in 1..Len(url) : url[i] = "/"}
        last == IF slashes = {} THEN 0
                ELSE CHOOSE i \in slashes : \A j \in slashes : j <= i
    IN  SubSeq(url, last + 1, Len(url))

\* C10: scrape_idaho_legislation returns one record per qualifying block, in
\* document order, with bill_number the final path segment of the href of
\* cell 0, title cell 1, status cell 3, detail_link the href and pdf_url the
\* base template followed by the bill number and ".pdf"; it returns whenever
\* cell 0 of every qualifying block holds a link with an href.
C10_IndexRecords ==
    /\ ipc = "returned" =>
         /\ Len(results) = Cardinality(Qualifying)
         /\ \A k \in 1..Len(results) :
              LET row == page[QualifyingAt(k)].cells
              IN  /\ results[k][1] = FinalSegment(row[1].href)
                  /\ results[k][2] = Strip(row[2].text)
                  /\ results[k][3] = Strip(row[4].text)
                  /\ results[k][4] = row[1].href
                  /\ results[k][5] = PdfUrlBase \o results[k][1] \o <<".pdf">>
    /\ (\A i \in Qualifying : page[i].cells[1].a = "href") => ipc # "raised"

\* Two valid bill blocks in the places of the two skipped ones, then a block
\* without a bill row between two bill blocks: two records, in page order.
C10_Witness ==
    /\ ipc = "returned"
    /\ page = <<Table_H0001, Table_S1001, Table_S1001, Table_noBillId, Table_H0001>>
    /\ Len(results) = 2
    /\ results[1][1] = <<"S1001">>
    /\ results[2][1] = <<"H0001">>

\* The qualifying blocks whose first cell holds a link with an href.
Complete == {i \in Qualifying : page[i].cells[1].a = "href"}

\* C18: a malformed block never aborts scrape_idaho_legislation: blocks
\* beyond the first two that cannot yield a complete record are skipped, and
\* the records of all the other blocks are returned.
C18_MalformedSkipped ==
    /\ ipc # "raised"
    /\ ipc = "returned" => Len(results) = Cardinality(Complete)

\* C20: the records returned for a listing page have pairwise distinct
\* bill_number values, each the final path segment of the record's
\* detail_link, so that no two records share a local PDF path.
C20_BillNumbersDistinct ==
    ipc = "returned" =>
        /\ \A i \in 1..Len(results) : results[i][1] = FinalSegment(results[i][4])
        /\ \A i, j \in 1..Len(results) :
             i # j =>
               /\ results[i][1] # results[j][1]
               /\ LastSegment(results[i][5]) # LastSegment(results[j][5])

-----------------------------------------------------------------------------
(* Properties of the detail parser *)

\* The text with one leading "by " removed when it starts with it.
WithoutLeadingBy(t) ==
    IF Len(t) >= 3 /\ SubSeq(t, 1, 3) = <<"b", "y", " ">>
    THEN SubSeq(t, 4, Len(t))
    ELSE t

\* C11: parse_detail_page returns the text of the third cell of the first row
\* trimmed, then without one leading "by ", then trimmed again; a "by " that
\* is not at the start of the text stays.
C11_LeadingByOnly ==
    dpc = "returned" =>
        sponsor = Strip(WithoutLeadingBy(Strip(dpage.cells[3])))

-----------------------------------------------------------------------------
(* Properties of main *)

FetchEvents == {"index", "detail", "pdf"}

\* The positions of mlog at which main did ev for row i with this outcome.
Did(ev, i, outcome) ==
    \E k \in 1..Len(mlog) : mlog[k] = Event(ev, i, outcome)

FailedFetch ==
    \E k \in 1..Len(mlog) : mlog[k].ev \in FetchEvents /\ mlog[k].outcome # "ok"

MainEnded == mpc \in {"done", "aborted"}

\* C12: when a fetch step of main fails (retries exhausted, or an error that
\* is not retried), main aborts with that failure and does not write the
\* CSV; main writes the CSV only when the index fetch, every sponsor fetch
\* and every download succeeded, and then with one complete row per record.
C12_NoPartialCsv ==
    /\ FailedFetch =>
         /\ ~csvFile.written
         /\ mpc \in {"finally", "aborted"}
         /\ merr \in {"RetryError", "OtherException"}
         /\ mlog[IF mpc = "aborted" THEN Len(mlog) - 1 ELSE Len(mlog)].outcome = merr
    /\ csvFile.written =>
         /\ Did("index", 0, "ok")
         /\ \A i \in 1..Len(billData) :
              /\ billData[i][4] # <<>> => Did("detail", i, "ok")
              /\ Did("pdf", i, "ok")
         /\ Len(csvFile.rows) = Len(billData)
         /\ \A i \in 1..Len(csvFile.rows) : Len(csvFile.rows[i]) = 7

\* The second download failed after the first one succeeded: main has
\* aborted, and no CSV was written.
C12_Witness ==
    /\ mpc = "aborted"
    /\ merr = "RetryError"
    /\ Did("pdf", 1, "ok")
    /\ Did("pdf", 2, "RetryError")
    /\ ~csvFile.exists

\* C13: on every path by which main ends after the session was created, the
\* session is closed exactly once, before main ends, and no request follows
\* the close.
C13_SessionClosedOnce ==
    /\ session.closes <= 1
    /\ MainEnded => session.state = "closed" /\ session.closes = 1
    /\ session.state = "closed" => MainEnded
    /\ \A k \in 1..Len(mlog) :
         /\ mlog[k].ev = "close" => k = Len(mlog)
         /\ mlog[k].ev \in FetchEvents => session.state # "none"

\* The CSV could not be written: main has aborted and the session is closed.
C13_Witness ==
    /\ mpc = "aborted"
    /\ merr = "OSError"
    /\ session = [state |-> "closed", closes |-> 1]
    /\ Len(billData) = 2

\* The sponsor the site's detail page of a link yields.
ExpectedSponsor(link) ==
    IF link = Href_H0001 THEN <<"J">>
    ELSE IF link = Href_S1001 THEN <<"S">>
    ELSE <<>>

\* C14: after a successful run over n records the dataset has n rows in
\* listing order; row i has the sponsor of record i's own detail_link (empty,
\* with no fetch, when the link is empty) and the path of the file downloaded
\* from record i's own pdf_url; the sidecar holds the run identifier.
C14_RowsMatchRecords ==
    mpc = "done" =>
        /\ csvFile.written
        /\ Len(csvFile.rows) = Len(billData)
        /\ \A i \in 1..Len(billData) :
             /\ SubSeq(csvFile.rows[i], 1, 5) = billData[i]
             /\ csvFile.rows[i][6] = ExpectedSponsor(billData[i][4])
             /\ billData[i][4] = <<>> =>
                  ~\E k \in 1..Len(mlog) : mlog[k].ev = "detail" /\ mlog[k].i = i
             /\ csvFile.rows[i][7] =
                  <<"Data", "/">> \o datarun \o <<"/">> \o billData[i][1] \o <<".pdf">>
             /\ <<csvFile.rows[i][7], PdfBody(billData[i][5])>> \in pdfFiles
        /\ datarunFile.exists
        /\ Strip(datarunFile.content) = datarun
        /\ OverrideNonBlank => datarun = Strip(env.val)

\* A run with a padded DATARUN over a record with a link and a record with an
\* empty link, in this order.
C14_Witness ==
    /\ mpc = "done"
    /\ env.set /\ env.val # Strip(env.val) /\ datarun = R_12_25_2025
    /\ Len(billData) = 2
    /\ billData[1][4] = Href_S1001
    /\ billData[2][4] = <<>>
    /\ csvFile.rows[1][6] = <<"S">>

Rank(e) ==
    CASE e.ev = "save_datarun" -> 1
      [] e.ev = "index" -> 2
      [] e.ev = "detail" -> 3
      [] e.ev = "pdf" -> 4
      [] e.ev = "csv" -> 5
      [] e.ev = "close" -> 6

C16_SidecarOnlyOnSuccess ==
    mpc = "aborted" /\ ~csvFile.written => datarunFile = sidecarBefore

\* C21: for every value of DATARUN (unset, blank, whitespace only, or a
\* value), a call of get_datarun after main has run, in the same environment,
\* returns the identifier main used for its data directory and CSV name.
C21_MainAndResolverAgree ==
    mpc \in {"done", "aborted"} /\ cpc \in {"returned", "exited"} =>
        /\ cpc = "returned"
        /\ cres.val = datarun

-----------------------------------------------------------------------------
(* Properties of download_pdf *)

\* C22: when download_pdf returns a path, it is the destination directory
\* followed by the final path segment of the URL, and the file there holds
\* exactly the body of the attempt that succeeded: nothing that an earlier
\* run or a failed attempt wrote is left in it.
C22_FileIsLastBody ==
    wpc = "returned" =>
        /\ wres = wdir \o <<"/">> \o FinalSegment(wurl)
        /\ wfile.exists
        /\ wfile.content = wbody
        /\ werr = "none"

\* The first attempt broke after it had written a chunk over the file of an
\* earlier run; the second attempt got another body and returned.
C22_Witness ==
    /\ wpc = "returned"
    /\ wattempt = 2
    /\ wlog = <<[at |-> "stream", written |-> <<"a">>]>>
    /\ wbody = <<"b", "b">>
    /\ wfile.content = <<"b", "b">>

====
